---------------------------- MODULE Spec2Model ----------------------------
(***************************************************************************)
(* v.vect.stats.multi: one run of main().  The run reads the parsed        *)
(* options and the attribute table of the points map, resolves the source  *)
(* columns, validates the supplied output names, and then calls            *)
(* v.vect.stats once per (column, method) pair, one call at a time.        *)
(*                                                                         *)
(* Python strings are TLA+ strings; str.split, str.upper and the f-string  *)
(* are computed character by character.                                    *)
(***************************************************************************)
EXTENDS Integers, Sequences, FiniteSets, TLC

VARIABLES
    options,               \* the parsed options, key -> string (gs.parser)
    points_table,          \* attribute table of the points map: <<[name, type]>>
    areas_columns,         \* columns present in the attribute table of the areas map
    pc,                    \* position of the run in main()
    points_columns,        \* list of source column names
    input_vector_columns,  \* name -> [type, index], as fetched at the start
    name_index,            \* position of the loop over the user provided columns
    methods,               \* list of method names
    stats_columns_names,   \* list of user provided output column names
    num_new_columns,       \* len(points_columns) * len(methods)
    modified_options,      \* the options handed on to every v.vect.stats call
    i,                     \* index of the current (column, method) pair
    calls,                 \* the v.vect.stats calls issued so far, in order
    in_flight,             \* indices of the calls that have not returned yet
    progress,              \* the gs.percent signals emitted so far: <<n, d, s>>
    error,                 \* the fatal error of the run, if any
    failed_at,             \* index of the pair whose v.vect.stats call failed, or -1
    exit_status            \* exit status of the process, or -1 while it runs

vars == <<options, points_table, areas_columns, pc, points_columns,
          input_vector_columns, name_index, methods, stats_columns_names,
          num_new_columns, modified_options, i, calls, in_flight, progress,
          error, failed_at, exit_status>>

---------------------------------------------------------------------------
(* Bounds of the explored inputs. *)

MaxTableCols == 2     \* columns in the attribute table of the points map
MaxRequested == 2     \* names in points_columns
MaxMethods == 2       \* names in method
MaxNames == 2         \* names in stats_columns

(* The names the inputs are built from. *)
TableNames == {"cat", "pop"}
SqlTypes == {"real", "TEXT"}
RequestedNames == {"cat", "pop", "x"}
MethodOptions == {"sum", "mode"}
OutputNames == {"s", "t_u"}

---------------------------------------------------------------------------
(* Strings. *)

Letters == <<"a", "b", "c", "d", "e", "f", "g", "h", "i", "j", "k", "l", "m",
             "n", "o", "p", "q", "r", "s", "t", "u", "v", "w", "x", "y", "z">>
Capitals == <<"A", "B", "C", "D", "E", "F", "G", "H", "I", "J", "K", "L", "M",
              "N", "O", "P", "Q", "R", "S", "T", "U", "V", "W", "X", "Y", "Z">>

\* str.upper() of one character
UpperChar(c) ==
    IF \E k \in 1..Len(Letters) : Letters[k] = c
    THEN Capitals[CHOOSE k \in 1..Len(Letters) : Letters[k] = c]
    ELSE c

RECURSIVE upper(_)
\* str.upper()
upper(s) == IF s = "" THEN "" ELSE UpperChar(Head(s)) \o upper(Tail(s))

RECURSIVE SplitFrom(_, _, _)
SplitFrom(s, word, done) ==
    IF s = "" THEN Append(done, word)
    ELSE IF Head(s) = "," THEN SplitFrom(Tail(s), "", Append(done, word))
    ELSE SplitFrom(Tail(s), word \o Head(s), done)

\* s.split(",")
split(s) == SplitFrom(s, "", <<>>)

RECURSIVE Joined(_)
\* the answers of a multiple option as the parser hands them on: comma separated
Joined(list) ==
    IF list = <<>> THEN ""
    ELSE IF Len(list) = 1 THEN list[1]
    ELSE list[1] \o "," \o Joined(Tail(list))

\* faulty variant: the list is counted, not its set
NumUnique_len(list) == Len(list)

\* len(set(list))
NumUnique(list) == Cardinality({list[k] : k \in DOMAIN list})

---------------------------------------------------------------------------
(* The numeric SQL types. *)

_SQL_INT_TYPES == <<"INT", "INTEGER", "TINYINT", "SMALLINT", "MEDIUMINT",
                    "BIGINT", "UNSIGNED BIG INT", "INT2", "INT8">>

_SQL_FLOAT_TYPES == <<"REAL", "DOUBLE", "DOUBLE PRECISION", "FLOAT",
                      "FLOATING POINT">>

_SQL_NUMERIC_TYPES == _SQL_INT_TYPES \o _SQL_FLOAT_TYPES

sql_type_is_numeric(sql_type) ==
    \E k \in DOMAIN _SQL_NUMERIC_TYPES : _SQL_NUMERIC_TYPES[k] = upper(sql_type)

---------------------------------------------------------------------------
(* The attribute table of the points map. *)

\* gs.vector_columns(points_name, points_layer): name -> {type, index}
vector_columns(table) ==
    [name \in {table[k].name : k \in DOMAIN table} |->
        LET k == CHOOSE k \in DOMAIN table : table[k].name = name
        IN  [type |-> table[k].type, index |-> k - 1]]

\* gs.vector_columns(points_name, points_layer, getDict=False): the names in
\* the order of the database
vector_column_names(table) == [k \in DOMAIN table |-> table[k].name]

RECURSIVE NumericOf_prepend(_, _)
\* faulty variant: each numeric column is put in front of the list
NumericOf_prepend(names, columns) ==
    IF names = <<>> THEN <<>>
    ELSE LET rest == NumericOf_prepend(Tail(names), columns)
         IN  IF sql_type_is_numeric(columns[Head(names)].type)
             THEN rest \o <<Head(names)>>
             ELSE rest

RECURSIVE NumericOf(_, _)
\* the loop that collects the numeric columns
NumericOf(names, columns) ==
    IF names = <<>> THEN <<>>
    ELSE LET rest == NumericOf(Tail(names), columns)
         IN  IF sql_type_is_numeric(columns[Head(names)].type)
             THEN <<Head(names)>> \o rest
             ELSE rest

\* faulty variant: a column the table does not have is let through
column_check_lenient(columns, name) ==
    IF name \notin DOMAIN columns THEN "none"
    ELSE IF ~sql_type_is_numeric(columns[name].type) THEN "NonNumericColumnError"
    ELSE "none"

\* faulty variant: the type of the column is not looked at
column_check_untyped(columns, name) ==
    IF name \notin DOMAIN columns THEN "ColumnNotFoundError"
    ELSE "none"

\* lines 166-176: what is wrong with a user provided column, if anything
column_check(columns, name) ==
    IF name \notin DOMAIN columns THEN "ColumnNotFoundError"
    ELSE IF ~sql_type_is_numeric(columns[name].type) THEN "NonNumericColumnError"
    ELSE "none"

---------------------------------------------------------------------------
(* The pairs and their output columns. *)

\* faulty variant: the methods are not counted
names_needed_columns(columns, meths) == Len(columns)

\* num_new_columns
names_needed(columns, meths) == Len(columns) * Len(meths)

\* faulty variant: the uniqueness of the names is not checked
names_check_count_only(names, needed) ==
    IF Len(names) # needed THEN "NameCountMismatchError"
    ELSE "none"

\* faulty variant: the uniqueness of the names is checked before their number
names_check_unique_first(names, needed) ==
    IF Len(names) # NumUnique(names) THEN "DuplicateNameError"
    ELSE IF Len(names) # needed THEN "NameCountMismatchError"
    ELSE "none"

\* lines 189-215: what is wrong with the provided names, if anything
names_check(names, needed) ==
    IF Len(names) # needed THEN "NameCountMismatchError"
    ELSE IF Len(names) # NumUnique(names) THEN "DuplicateNameError"
    ELSE "none"

RECURSIVE product_methods_first(_, _)
\* faulty variant: the leftmost advances first
product_methods_first(columns, meths) ==
    IF meths = <<>> THEN <<>>
    ELSE [k \in 1..Len(columns) |-> <<columns[k], Head(meths)>>]
         \o product_methods_first(columns, Tail(meths))

RECURSIVE product(_, _)
\* itertools.product(points_columns, methods): the rightmost advances first
product(columns, meths) ==
    IF columns = <<>> THEN <<>>
    ELSE [k \in 1..Len(meths) |-> <<Head(columns), meths[k]>>]
         \o product(Tail(columns), meths)

\* faulty variant: the method is left out of the generated name
stats_column_name_no_method(names, index, points_column, method) ==
    IF names # <<>> THEN names[index + 1]
    ELSE points_column \o "_"

\* faulty variant: the provided names are not used
stats_column_name_generated(names, index, points_column, method) ==
    points_column \o "_" \o method

\* faulty variant: the method comes first in the generated name
stats_column_name_method_first(names, index, points_column, method) ==
    IF names # <<>> THEN names[index + 1]
    ELSE method \o "_" \o points_column

\* the output column of pair number index (counted from 0)
stats_column_name(names, index, points_column, method) ==
    IF names # <<>> THEN names[index + 1]
    ELSE points_column \o "_" \o method

---------------------------------------------------------------------------
(* The options. *)

OptionKeys == {"points", "areas", "type", "points_layer", "points_cats",
               "points_where", "areas_layer", "areas_cats", "areas_where",
               "method", "points_columns", "count_column", "stats_columns"}

HandledKeys == {"points_columns", "stats_columns", "method"}

ParsedOptions(columns_answer, method_answer, names_answer) ==
    [key \in OptionKeys |->
        CASE key = "points" -> "pts"
          [] key = "areas" -> "zones"
          [] key = "type" -> "point"
          [] key = "points_layer" -> "1"
          [] key = "areas_layer" -> "1"
          [] key = "count_column" -> "n"
          [] key = "points_columns" -> columns_answer
          [] key = "method" -> method_answer
          [] key = "stats_columns" -> names_answer
          [] OTHER -> ""]

\* faulty variant: the method list is left in the shared options
TrimmedOptions_keeps_method(opts) ==
    [key \in DOMAIN opts \ {"points_columns", "stats_columns"} |-> opts[key]]

\* options.copy() with the three handled keys deleted
TrimmedOptions(opts) == [key \in DOMAIN opts \ HandledKeys |-> opts[key]]

ListsOver(S, shortest, longest) ==
    UNION {[1..n -> S] : n \in shortest..longest}

Tables ==
    {t \in ListsOver([name : TableNames, type : SqlTypes], 0, MaxTableCols) :
        \A j, k \in DOMAIN t : t[j].name = t[k].name => j = k}

InitialAreasColumns == {"cat"}

NoError == [kind |-> "none", args |-> <<>>]

---------------------------------------------------------------------------
(* The run. *)

Init ==
    /\ points_table \in Tables
    /\ \E requested \in ListsOver(RequestedNames, 0, MaxRequested),
          meths \in ListsOver(MethodOptions, 1, MaxMethods),
          names \in ListsOver(OutputNames, 0, MaxNames) :
            options = ParsedOptions(Joined(requested), Joined(meths), Joined(names))
    /\ areas_columns = InitialAreasColumns
    /\ pc = "Start"
    /\ points_columns = <<>>
    /\ input_vector_columns = <<>>
    /\ name_index = 0
    /\ methods = <<>>
    /\ stats_columns_names = <<>>
    /\ num_new_columns = 0
    /\ modified_options = <<>>
    /\ i = 0
    /\ calls = <<>>
    /\ in_flight = {}
    /\ progress = <<>>
    /\ error = NoError
    /\ failed_at = -1
    /\ exit_status = -1

\* gs.fatal(message): the message is printed and the process exits with 1
fatal(kind, args) ==
    /\ pc' = "Failed"
    /\ error' = [kind |-> kind, args |-> args]
    /\ exit_status' = 1

RECURSIVE WithoutRepeats(_)
WithoutRepeats(list) ==
    IF list = <<>> THEN <<>>
    ELSE LET front == WithoutRepeats(SubSeq(list, 1, Len(list) - 1))
             last == list[Len(list)]
         IN  IF \E k \in DOMAIN front : front[k] = last
             THEN front ELSE Append(front, last)

\* faulty variant: a column requested twice is taken once
ReadColumns_unique ==
    /\ pc = "Start"
    /\ points_columns' = IF options["points_columns"] # ""
                         THEN WithoutRepeats(split(options["points_columns"]))
                         ELSE <<>>
    /\ input_vector_columns' = vector_columns(points_table)
    /\ pc' = IF points_columns' = <<>> THEN "AllNumeric" ELSE "CheckColumns"
    /\ UNCHANGED <<options, points_table, areas_columns, name_index, methods,
                   stats_columns_names, num_new_columns, modified_options, i,
                   calls, in_flight, progress, error, failed_at, exit_status>>

\* faulty variant: a table without numeric columns is an error
AllNumericColumns_requires_some ==
    /\ pc = "AllNumeric"
    /\ points_columns' = NumericOf(vector_column_names(points_table),
                                   input_vector_columns)
    /\ IF points_columns' = <<>>
       THEN fatal("NoNumericColumnError", <<options["points"]>>)
       ELSE pc' = "NameResolution" /\ UNCHANGED <<error, exit_status>>
    /\ UNCHANGED <<options, points_table, areas_columns, input_vector_columns,
                   name_index, methods, stats_columns_names, num_new_columns,
                   modified_options, i, calls, in_flight, progress, failed_at>>

\* lines 144-152: the requested columns and the metadata of the table
ReadColumns ==
    /\ pc = "Start"
    /\ points_columns' = IF options["points_columns"] # ""
                         THEN split(options["points_columns"])
                         ELSE <<>>
    /\ input_vector_columns' = vector_columns(points_table)
    /\ pc' = IF points_columns' = <<>> THEN "AllNumeric" ELSE "CheckColumns"
    /\ UNCHANGED <<options, points_table, areas_columns, name_index, methods,
                   stats_columns_names, num_new_columns, modified_options, i,
                   calls, in_flight, progress, error, failed_at, exit_status>>

\* lines 154-162: no column was requested, take every numeric column
AllNumericColumns ==
    /\ pc = "AllNumeric"
    /\ points_columns' = NumericOf(vector_column_names(points_table),
                                   input_vector_columns)
    /\ pc' = "NameResolution"
    /\ UNCHANGED <<options, points_table, areas_columns, input_vector_columns,
                   name_index, methods, stats_columns_names, num_new_columns,
                   modified_options, i, calls, in_flight, progress, error,
                   failed_at, exit_status>>

\* lines 165-182: one turn of the loop over the user provided columns
CheckColumn ==
    /\ pc = "CheckColumns"
    /\ LET name == points_columns[name_index + 1]
           found == column_check(input_vector_columns, name)
       IN  CASE found = "ColumnNotFoundError" ->
                  /\ fatal(found, <<name, options["points"], options["points_layer"]>>)
                  /\ UNCHANGED name_index
             [] found = "NonNumericColumnError" ->
                  /\ fatal(found, <<name, options["points"],
                                    input_vector_columns[name].type>>)
                  /\ UNCHANGED name_index
             [] OTHER ->
                  /\ name_index' = name_index + 1
                  /\ pc' = IF name_index + 1 = Len(points_columns)
                           THEN "NameResolution" ELSE "CheckColumns"
                  /\ UNCHANGED <<error, exit_status>>
    /\ UNCHANGED <<options, points_table, areas_columns, points_columns,
                   input_vector_columns, methods, stats_columns_names,
                   num_new_columns, modified_options, i, calls, in_flight,
                   progress, failed_at>>

\* lines 184-215: the methods, the number of pairs and the provided names
NameResolution ==
    /\ pc = "NameResolution"
    /\ methods' = split(options["method"])
    /\ num_new_columns' = names_needed(points_columns, methods')
    /\ IF options["stats_columns"] # ""
       THEN LET names == split(options["stats_columns"])
                found == names_check(names, num_new_columns')
            IN  /\ stats_columns_names' = names
                /\ CASE found = "NameCountMismatchError" ->
                          fatal(found, <<Len(names), Len(points_columns),
                                         Len(methods'), num_new_columns'>>)
                     [] found = "DuplicateNameError" ->
                          fatal(found, <<Len(names), NumUnique(names)>>)
                     [] OTHER ->
                          /\ pc' = "TrimOptions"
                          /\ UNCHANGED <<error, exit_status>>
       ELSE /\ stats_columns_names' = <<>>
            /\ pc' = "TrimOptions"
            /\ UNCHANGED <<error, exit_status>>
    /\ UNCHANGED <<options, points_table, areas_columns, points_columns,
                   input_vector_columns, name_index, modified_options, i,
                   calls, in_flight, progress, failed_at>>

\* faulty variant: the table of the areas map is put back after a failure
CallFails_rollback ==
    /\ pc = "InFlight"
    /\ in_flight' = in_flight \ {i}
    /\ failed_at' = i
    /\ pc' = "Failed"
    /\ error' = [kind |-> "DelegatedOperationError",
                 args |-> <<calls[Len(calls)].module>>]
    /\ exit_status' = 1
    /\ areas_columns' = InitialAreasColumns
    /\ UNCHANGED <<options, points_table, points_columns,
                   input_vector_columns, name_index, methods,
                   stats_columns_names, num_new_columns, modified_options, i,
                   calls, progress>>

\* faulty variant: the call is started and not waited for
Dispatch_not_awaited ==
    /\ pc = "Dispatching"
    /\ i < Len(product(points_columns, methods))
    /\ LET pair == product(points_columns, methods)[i + 1]
       IN  calls' = Append(calls,
                [module |-> "v.vect.stats",
                 method |-> pair[2],
                 points_column |-> pair[1],
                 stats_column |-> IF stats_columns_names # <<>>
                                  THEN stats_columns_names[i + 1]
                                  ELSE pair[1] \o "_" \o pair[2],
                 quiet |-> TRUE,
                 shared |-> modified_options,
                 errors |-> "exit"])
    /\ in_flight' = in_flight \cup {i}
    /\ i' = i + 1
    /\ UNCHANGED <<options, points_table, areas_columns, pc, points_columns,
                   input_vector_columns, name_index, methods,
                   stats_columns_names, num_new_columns, modified_options,
                   progress, error, failed_at, exit_status>>

\* faulty variant: main returns at the end of the first turn of the loop
Finish_early ==
    /\ pc = "Dispatching"
    /\ i = Len(product(points_columns, methods)) \/ i = 1
    /\ progress' = Append(progress, <<1, 1, 1>>)
    /\ pc' = "Succeeded"
    /\ exit_status' = 0
    /\ UNCHANGED <<options, points_table, areas_columns, points_columns,
                   input_vector_columns, name_index, methods,
                   stats_columns_names, num_new_columns, modified_options, i,
                   calls, in_flight, error, failed_at>>

\* lines 217-221: the options every call shares
TrimOptions ==
    /\ pc = "TrimOptions"
    /\ modified_options' = TrimmedOptions(options)
    /\ i' = 0
    /\ pc' = "Dispatching"
    /\ UNCHANGED <<options, points_table, areas_columns, points_columns,
                   input_vector_columns, name_index, methods,
                   stats_columns_names, num_new_columns, calls, in_flight,
                   progress, error, failed_at, exit_status>>

\* lines 232-245: the next pair; its v.vect.stats call is started
Dispatch ==
    /\ pc = "Dispatching"
    /\ i < Len(product(points_columns, methods))
    /\ LET pair == product(points_columns, methods)[i + 1]
           points_column == pair[1]
           method == pair[2]
       IN  calls' = Append(calls,
                [module |-> "v.vect.stats",
                 method |-> method,
                 points_column |-> points_column,
                 stats_column |-> stats_column_name(stats_columns_names, i,
                                                    points_column, method),
                 quiet |-> TRUE,
                 shared |-> modified_options,
                 errors |-> "exit"])
    /\ in_flight' = in_flight \cup {i}
    /\ pc' = "InFlight"
    /\ UNCHANGED <<options, points_table, areas_columns, points_columns,
                   input_vector_columns, name_index, methods,
                   stats_columns_names, num_new_columns, modified_options, i,
                   progress, error, failed_at, exit_status>>

\* lines 237-246: v.vect.stats returns 0, having written the count column and
\* the statistics column to the table of the areas map; then gs.percent
CallSucceeds ==
    /\ pc = "InFlight"
    /\ LET call == calls[Len(calls)]
       IN  areas_columns' = areas_columns
                \cup {call.shared["count_column"], call.stats_column}
    /\ in_flight' = in_flight \ {i}
    /\ progress' = Append(progress, <<i, num_new_columns, 1>>)
    /\ i' = i + 1
    /\ pc' = "Dispatching"
    /\ UNCHANGED <<options, points_table, points_columns, input_vector_columns,
                   name_index, methods, stats_columns_names, num_new_columns,
                   modified_options, calls, error, failed_at, exit_status>>

\* faulty variant: the failure of the call is ignored and the loop goes on
CallFails_ignored ==
    /\ pc = "InFlight"
    /\ in_flight' = in_flight \ {i}
    /\ failed_at' = IF failed_at = -1 THEN i ELSE failed_at
    /\ error' = [kind |-> "DelegatedOperationError",
                 args |-> <<calls[Len(calls)].module>>]
    /\ i' = i + 1
    /\ pc' = "Dispatching"
    /\ UNCHANGED <<options, points_table, areas_columns, points_columns,
                   input_vector_columns, name_index, methods,
                   stats_columns_names, num_new_columns, modified_options,
                   calls, progress, exit_status>>

\* lines 237-245: v.vect.stats returns non-zero; errors="exit" ends the process
CallFails ==
    /\ pc = "InFlight"
    /\ in_flight' = in_flight \ {i}
    /\ failed_at' = i
    /\ pc' = "Failed"
    /\ error' = [kind |-> "DelegatedOperationError", args |-> <<calls[Len(calls)].module>>]
    /\ exit_status' = 1
    /\ UNCHANGED <<options, points_table, areas_columns, points_columns,
                   input_vector_columns, name_index, methods,
                   stats_columns_names, num_new_columns, modified_options, i,
                   calls, progress>>

\* faulty variant: the final signal is left out when there was nothing to do
Finish_silent_when_empty ==
    /\ pc = "Dispatching"
    /\ i = Len(product(points_columns, methods))
    /\ progress' = IF num_new_columns = 0 THEN progress
                   ELSE Append(progress, <<1, 1, 1>>)
    /\ pc' = "Succeeded"
    /\ exit_status' = 0
    /\ UNCHANGED <<options, points_table, areas_columns, points_columns,
                   input_vector_columns, name_index, methods,
                   stats_columns_names, num_new_columns, modified_options, i,
                   calls, in_flight, error, failed_at>>

\* lines 247-249: the loop is over
Finish ==
    /\ pc = "Dispatching"
    /\ i = Len(product(points_columns, methods))
    /\ progress' = Append(progress, <<1, 1, 1>>)
    /\ pc' = "Succeeded"
    /\ exit_status' = 0
    /\ UNCHANGED <<options, points_table, areas_columns, points_columns,
                   input_vector_columns, name_index, methods,
                   stats_columns_names, num_new_columns, modified_options, i,
                   calls, in_flight, error, failed_at>>

Next ==
    \/ ReadColumns
    \/ AllNumericColumns
    \/ CheckColumn
    \/ NameResolution
    \/ TrimOptions
    \/ Dispatch
    \/ CallSucceeds
    \/ CallFails
    \/ Finish

Spec == Init /\ [][Next]_vars

---------------------------------------------------------------------------
(* What the user asked for, read off the options and the table. *)

Requested ==
    IF options["points_columns"] = "" THEN <<>>
    ELSE split(options["points_columns"])

Supplied ==
    IF options["stats_columns"] = "" THEN <<>>
    ELSE split(options["stats_columns"])

MethodList == split(options["method"])

InTable(name) == \E k \in DOMAIN points_table : points_table[k].name = name

TableIndex(name) == CHOOSE k \in DOMAIN points_table : points_table[k].name = name

IsNumericColumn(name) ==
    \E k \in DOMAIN points_table :
        /\ points_table[k].name = name
        /\ sql_type_is_numeric(points_table[k].type)

HasDuplicate(list) == \E j, k \in DOMAIN list : j # k /\ list[j] = list[k]

\* the columns the run has to end up with
ExpectedColumns ==
    IF Requested = <<>>
    THEN SelectSeq(vector_column_names(points_table), IsNumericColumn)
    ELSE Requested

ValidationFails ==
    LET requested == Requested
        supplied == Supplied
    IN  \/ \E k \in DOMAIN requested : ~IsNumericColumn(requested[k])
        \/ /\ supplied # <<>>
           /\ \/ Len(supplied) # Len(ExpectedColumns) * Len(MethodList)
              \/ HasDuplicate(supplied)

\* the column and the method of pair number index (counted from 0)
JobColumn(index) == points_columns[(index \div Len(methods)) + 1]
JobMethod(index) == methods[(index % Len(methods)) + 1]

PastColumnResolution ==
    /\ pc \notin {"Start", "AllNumeric", "CheckColumns"}
    /\ error.kind \notin {"ColumnNotFoundError", "NonNumericColumnError"}

PastNameResolution == PastColumnResolution /\ pc # "NameResolution"

OutputColumnsDistinct ==
    \A j, k \in DOMAIN calls :
        calls[j].stats_column = calls[k].stats_column => j = k

---------------------------------------------------------------------------
(* The claims. *)

\* C1: when validation fails (a requested column is absent or not numeric,
\* the number of provided names differs from N, or a provided name occurs
\* twice), no v.vect.stats call is ever issued and the table of the areas map
\* stays as it was at the start.  Stated by contraposition: a run that has
\* issued a call or changed the table has an input that passes validation.
C1_NoCallOnInvalidInput ==
    (calls # <<>> \/ areas_columns # InitialAreasColumns) => ~ValidationFails

C1_Witness ==
    /\ pc = "Failed"
    /\ error.kind = "DuplicateNameError"
    /\ ValidationFails
    /\ calls = <<>>

\* C2: when the call of pair k is the first to fail, the calls issued are
\* exactly those of the pairs 0..k, in increasing order, and no call of a
\* pair k+1..N-1 is issued afterwards.
C2_FailFast ==
    failed_at >= 0 =>
        /\ pc = "Failed"
        /\ Len(calls) = failed_at + 1
        /\ failed_at < num_new_columns
        /\ \A j \in DOMAIN calls :
              /\ calls[j].points_column = JobColumn(j - 1)
              /\ calls[j].method = JobMethod(j - 1)

C2_Witness ==
    /\ failed_at = 1
    /\ num_new_columns = 4
    /\ Len(calls) = 2

\* C3: the i-th call (counted from 0) is for column points_columns[i div M]
\* and method methods[i mod M], where M is the number of methods: all the
\* methods of a column come before any method of the next column.
C3_ColumnMajorOrder ==
    \A j \in DOMAIN calls :
        /\ calls[j].points_column = points_columns[((j - 1) \div Len(methods)) + 1]
        /\ calls[j].method = methods[((j - 1) % Len(methods)) + 1]

C3_Witness ==
    /\ pc = "Succeeded"
    /\ Len(calls) = 4
    /\ points_columns[1] # points_columns[2]
    /\ methods[1] # methods[2]
    /\ calls[2].points_column = points_columns[1]
    /\ calls[2].method = methods[2]

\* C4 as stated: the output columns of the calls of one run are pairwise
\* distinct, whatever the columns, the methods and the names.
C4_Original == OutputColumnsDistinct

\* C4 as amended: the output columns of the calls of one run are pairwise
\* distinct when names are provided, and also when no names are provided and
\* neither the column list nor the method list names anything twice.
C4_DistinctOutputColumns ==
    (Supplied # <<>> \/ (~HasDuplicate(points_columns) /\ ~HasDuplicate(methods)))
        => OutputColumnsDistinct

C4_Witness ==
    /\ pc = "Succeeded"
    /\ Supplied = <<>>
    /\ Len(calls) = 4
    /\ ~HasDuplicate(points_columns)
    /\ ~HasDuplicate(methods)

\* C5: when names are provided and pass validation, the call of pair i gets
\* provided name number i as its output column, so that in a run that
\* succeeds every provided name is used by exactly one call.
C5_ProvidedNamesInOrder ==
    Supplied # <<>> =>
        /\ \A j \in DOMAIN calls : calls[j].stats_column = Supplied[j]
        /\ pc = "Succeeded" =>
              \A n \in DOMAIN Supplied :
                  Cardinality({j \in DOMAIN calls :
                                  calls[j].stats_column = Supplied[n]}) = 1

C5_Witness ==
    /\ pc = "Succeeded"
    /\ Len(Supplied) = 2
    /\ Len(calls) = 2
    /\ calls[2].stats_column = Supplied[2]

\* C6: when no names are provided, the output column of every call is the
\* column of its pair, an underscore and the method of its pair, for every
\* pair in the order of enumeration.
C6_GeneratedNames ==
    Supplied = <<>> =>
        /\ \A j \in DOMAIN calls :
              calls[j].stats_column = JobColumn(j - 1) \o "_" \o JobMethod(j - 1)
        /\ pc = "Succeeded" => Len(calls) = Len(points_columns) * Len(methods)

C6_Witness ==
    /\ pc = "Succeeded"
    /\ Supplied = <<>>
    /\ Len(calls) = 2
    /\ calls[1].stats_column = "pop_mode"
    /\ calls[2].stats_column = "pop_sum"

\* C7 as stated: whenever the provided names hold a duplicate (the columns
\* having resolved), the run fails with the duplicate name error before any
\* call.
C7_Original ==
    (PastNameResolution /\ HasDuplicate(Supplied)) =>
        /\ pc = "Failed"
        /\ error.kind = "DuplicateNameError"
        /\ calls = <<>>

\* C7 as amended: whenever the provided names hold a duplicate and are as
\* many as the N names needed (the columns having resolved), the run fails
\* with the duplicate name error before any call.
C7_DuplicateNames ==
    (/\ PastNameResolution
     /\ HasDuplicate(Supplied)
     /\ Len(Supplied) = Len(points_columns) * Len(MethodList)) =>
        /\ pc = "Failed"
        /\ error.kind = "DuplicateNameError"
        /\ calls = <<>>

C7_Witness ==
    /\ pc = "Failed"
    /\ error.kind = "DuplicateNameError"
    /\ HasDuplicate(Supplied)
    /\ Len(Supplied) = 2
    /\ Len(points_columns) = 2

\* C8: whenever the number of provided names differs from
\* N = |resolved columns| * |methods|, the run fails with the name count
\* error, which carries the number provided and the number needed, and no
\* call is issued.
C8_NameCountMismatch ==
    (/\ PastNameResolution
     /\ Supplied # <<>>
     /\ Len(Supplied) # Len(points_columns) * Len(MethodList)) =>
        /\ pc = "Failed"
        /\ error.kind = "NameCountMismatchError"
        /\ error.args[1] = Len(Supplied)
        /\ error.args[4] = Len(points_columns) * Len(MethodList)
        /\ calls = <<>>

C8_Witness ==
    /\ pc = "Failed"
    /\ error.kind = "NameCountMismatchError"
    /\ error.args[1] = 1
    /\ error.args[4] = 4

\* C9: when no columns are requested, the resolved columns are exactly the
\* columns of the table with a numeric type, each once, in the order of the
\* table, the first (key) column included.
C9_AllNumericColumns ==
    (Requested = <<>> /\ pc \notin {"Start", "AllNumeric"}) =>
        /\ \A k \in DOMAIN points_columns : IsNumericColumn(points_columns[k])
        /\ \A c \in DOMAIN points_table :
              sql_type_is_numeric(points_table[c].type) =>
                  Cardinality({k \in DOMAIN points_columns :
                                  points_columns[k] = points_table[c].name}) = 1
        /\ \A j, k \in DOMAIN points_columns :
              j < k => TableIndex(points_columns[j]) < TableIndex(points_columns[k])

C9_Witness ==
    /\ pc = "NameResolution"
    /\ Requested = <<>>
    /\ Len(points_table) = 2
    /\ points_table[1].type = "real"
    /\ points_columns = <<points_table[1].name, points_table[2].name>>

\* C10 as stated: whenever a requested column is absent from the table, the
\* resolution of the columns fails with the column not found error.
C10_Original ==
    (/\ pc \notin {"Start", "CheckColumns"}
     /\ \E k \in DOMAIN Requested : ~InTable(Requested[k])) =>
        /\ pc = "Failed"
        /\ error.kind = "ColumnNotFoundError"

\* C10 as amended: whenever a requested column is absent from the table, the
\* resolution of the columns fails: with the column not found error when
\* every name requested before the first absent one is a numeric column, and
\* with the non-numeric column error otherwise.
C10_ColumnNotFound ==
    (/\ pc \notin {"Start", "CheckColumns"}
     /\ \E k \in DOMAIN Requested : ~InTable(Requested[k])) =>
        LET absent == CHOOSE k \in DOMAIN Requested :
                          /\ ~InTable(Requested[k])
                          /\ \A j \in 1..(k - 1) : InTable(Requested[j])
        IN  /\ pc = "Failed"
            /\ error.kind =
                  IF \A j \in 1..(absent - 1) : IsNumericColumn(Requested[j])
                  THEN "ColumnNotFoundError"
                  ELSE "NonNumericColumnError"

C10_Witness ==
    /\ pc = "Failed"
    /\ error.kind = "ColumnNotFoundError"
    /\ Len(Requested) = 2
    /\ IsNumericColumn(Requested[1])
    /\ ~InTable(Requested[2])

\* C11 as stated: whenever a requested column has a type that is not
\* numeric, the resolution of the columns fails with the non-numeric column
\* error.
C11_Original ==
    (/\ pc \notin {"Start", "CheckColumns"}
     /\ \E k \in DOMAIN Requested :
           InTable(Requested[k]) /\ ~IsNumericColumn(Requested[k])) =>
        /\ pc = "Failed"
        /\ error.kind = "NonNumericColumnError"

\* C11 as amended: whenever a requested column has a type that is not
\* numeric, the resolution of the columns fails: with the non-numeric column
\* error when every name requested before the first such column is in the
\* table, and with the column not found error otherwise.
C11_NonNumericColumn ==
    LET requested == Requested
    IN  (/\ pc \notin {"Start", "CheckColumns"}
         /\ \E k \in DOMAIN requested :
               InTable(requested[k]) /\ ~IsNumericColumn(requested[k])) =>
            LET text == CHOOSE k \in DOMAIN requested :
                            /\ InTable(requested[k])
                            /\ ~IsNumericColumn(requested[k])
                            /\ \A j \in 1..(k - 1) :
                                  InTable(requested[j]) => IsNumericColumn(requested[j])
            IN  /\ pc = "Failed"
                /\ error.kind =
                      IF \A j \in 1..(text - 1) : InTable(requested[j])
                      THEN "NonNumericColumnError"
                      ELSE "ColumnNotFoundError"

C11_Witness ==
    /\ pc = "Failed"
    /\ error.kind = "NonNumericColumnError"
    /\ Len(Requested) = 2
    /\ IsNumericColumn(Requested[1])
    /\ InTable(Requested[2])
    /\ error.args = <<Requested[2], "pts", "TEXT">>

\* C12: the progress signal emitted after the call of pair i has succeeded
\* stands for (i+1)/N, so that the signal after the last pair stands for N/N.
\* Signal number k of the loop is the one emitted after pair k-1; it stands
\* for progress[k][1] / progress[k][2].
C12_ProgressAfterJob ==
    \A k \in DOMAIN progress :
        k <= num_new_columns =>
            progress[k][1] * num_new_columns = k * progress[k][2]

\* C13: in a run that passes validation and whose N calls all succeed, the
\* final signal of 100% is emitted after the last call, also when N is 0,
\* and no call is issued after it.
C13_FinalSignal ==
    /\ pc = "Succeeded" =>
          /\ progress # <<>>
          /\ progress[Len(progress)] = <<1, 1, 1>>
    /\ \A k \in DOMAIN progress :
          (progress[k][1] = progress[k][2]) =>
              /\ k = Len(progress)
              /\ k = Len(calls) + 1
              /\ pc = "Succeeded"
              /\ in_flight = {}
              /\ Len(calls) = Len(points_columns) * Len(methods)

C13_Witness ==
    /\ pc = "Succeeded"
    /\ Len(calls) = 2
    /\ progress = <<<<0, 2, 1>>, <<1, 2, 1>>, <<1, 1, 1>>>>

\* C14: every call of a run gets the same shared options, which are the
\* options of the caller without points_columns, stats_columns and method and
\* with every other entry as it was; only method, points_column and
\* stats_column differ from call to call, and the options of the caller are
\* never changed.
C14_SharedOptions ==
    /\ [](\A j \in DOMAIN calls :
            /\ DOMAIN calls[j].shared =
                  DOMAIN options \ {"points_columns", "stats_columns", "method"}
            /\ \A key \in DOMAIN calls[j].shared :
                  calls[j].shared[key] = options[key]
            /\ calls[j].module = "v.vect.stats"
            /\ calls[j].quiet
            /\ calls[j].errors = "exit")
    /\ [][options' = options]_vars

C14_Witness ==
    /\ Len(calls) = 2
    /\ calls[1].shared = calls[2].shared
    /\ calls[1].shared["count_column"] = "n"
    /\ calls[1].method # calls[2].method

\* How far the run is from its end: the part of main() it is in, and the
\* turns its loop has left.
Phase ==
    CASE pc = "Start" -> 5
      [] pc \in {"AllNumeric", "CheckColumns"} -> 4
      [] pc = "NameResolution" -> 3
      [] pc = "TrimOptions" -> 2
      [] pc \in {"Dispatching", "InFlight"} -> 1
      [] OTHER -> 0

TurnsLeft ==
    CASE pc = "CheckColumns" -> Len(points_columns) - name_index
      [] pc = "Dispatching" -> 2 * (Len(points_columns) * Len(methods) - i) + 1
      [] pc = "InFlight" -> 2 * (Len(points_columns) * Len(methods) - i)
      [] OTHER -> 0

\* The run can take its next step: it is at a statement of main(), inside the
\* list its loop walks, or waiting for a call that returns.
CanStep ==
    \/ pc \in {"Start", "AllNumeric", "NameResolution", "TrimOptions", "InFlight"}
    \/ pc = "CheckColumns" /\ name_index < Len(points_columns)
    \/ pc = "Dispatching" /\ i <= Len(points_columns) * Len(methods)

\* CanStep is the enabling condition of Next (checked with the bounds as
\* written; C15 uses CanStep, which is much cheaper to evaluate).
CanStepIsEnabled == CanStep <=> ENABLED Next

\* C15: every call returning, every run ends in exactly one of Succeeded and
\* Failed: outside these two a step is always possible, every step brings the
\* run nearer to its end, and the two are never left.  Succeeded is reached
\* only after exactly N calls, one for each of the pairs 0..N-1 in turn and
\* none twice, all of which succeeded.
C15_Termination ==
    /\ []((pc = "Succeeded" \/ pc = "Failed") \/ CanStep)
    /\ [](TurnsLeft >= 0)
    /\ [][\/ Phase' < Phase
          \/ Phase' = Phase /\ TurnsLeft' < TurnsLeft]_vars
    /\ [][(pc = "Succeeded" \/ pc = "Failed") => pc' = pc]_vars
    /\ [](pc = "Succeeded" =>
            LET N == Len(points_columns) * Len(methods)
            IN  /\ Len(calls) = N
                /\ Len(progress) = N + 1
                /\ \A k \in 1..N :
                      /\ progress[k][1] = k - 1
                      /\ calls[k].points_column = JobColumn(k - 1)
                      /\ calls[k].method = JobMethod(k - 1)
                /\ in_flight = {}
                /\ failed_at = -1
                /\ error = NoError)

C15_Witness ==
    /\ pc = "Succeeded"
    /\ Len(calls) = 4
    /\ Len(progress) = 5
    /\ failed_at = -1

\* C16: when the call of pair k fails nothing is rolled back: in Failed the
\* table of the areas map holds what the calls of the pairs 0..k-1 left
\* there, and the run changes it no more.
C16_NoRollback ==
    failed_at >= 0 =>
        /\ pc = "Failed"
        /\ areas_columns =
              InitialAreasColumns
              \cup {calls[j].stats_column : j \in 1..failed_at}
              \cup (IF failed_at > 0 THEN {options["count_column"]} ELSE {})

C16_Witness ==
    /\ failed_at = 1
    /\ pc = "Failed"
    /\ calls[1].stats_column \in areas_columns
    /\ calls[1].stats_column \notin InitialAreasColumns
    /\ calls[2].stats_column \notin areas_columns

\* C17: at most one call is in flight at any time: the call of pair i+1 is
\* not started before the call of pair i has returned with success.
C17_OneInFlight ==
    /\ Cardinality(in_flight) <= 1
    /\ \A j \in in_flight :
          /\ Len(calls) = j + 1
          /\ Len(progress) = j
          /\ \A k \in 1..j : progress[k][1] = k - 1

C17_Witness ==
    /\ in_flight = {1}
    /\ Len(calls) = 2
    /\ Len(progress) = 1

\* C18: when columns are requested and all of them pass validation, the
\* resolved columns are the requested list itself: in the order the user
\* gave, not that of the table, and with a name requested twice kept twice
\* and counted twice in N.
C18_RequestedOrderKept ==
    LET requested == Requested
    IN  (requested # <<>> /\ PastColumnResolution) =>
            /\ points_columns = requested
            /\ pc # "NameResolution" =>
                  num_new_columns = Len(requested) * Len(MethodList)
            /\ \A j \in DOMAIN calls :
                  calls[j].points_column =
                      requested[((j - 1) \div Len(MethodList)) + 1]

C18_Witness ==
    /\ pc = "Succeeded"
    /\ Len(points_table) = 2
    /\ Requested = <<points_table[2].name, points_table[1].name>>
    /\ points_columns = Requested
    /\ Len(calls) = 2

\* C19: the validation errors have a fixed order.  The requested columns
\* are checked in the order requested and the run fails on the first name
\* that is absent (column not found) or not numeric (non-numeric column),
\* whatever comes after it; and the number of the provided names is checked
\* before their uniqueness, so that a list with both a wrong length and a
\* duplicate fails with the name count error.
C19_ErrorPrecedence ==
    LET requested == Requested
        supplied == Supplied
    IN  /\ (/\ pc \notin {"Start", "CheckColumns"}
            /\ \E k \in DOMAIN requested : ~IsNumericColumn(requested[k])) =>
               LET first == CHOOSE k \in DOMAIN requested :
                                /\ ~IsNumericColumn(requested[k])
                                /\ \A j \in 1..(k - 1) : IsNumericColumn(requested[j])
               IN  /\ pc = "Failed"
                   /\ error.kind = IF InTable(requested[first])
                                   THEN "NonNumericColumnError"
                                   ELSE "ColumnNotFoundError"
                   /\ error.args[1] = requested[first]
                   /\ name_index = first - 1
        /\ (/\ PastNameResolution
            /\ HasDuplicate(supplied)
            /\ Len(supplied) # Len(points_columns) * Len(MethodList)) =>
               /\ pc = "Failed"
               /\ error.kind = "NameCountMismatchError"

C19_Witness ==
    /\ pc = "Failed"
    /\ error.kind = "NameCountMismatchError"
    /\ HasDuplicate(Supplied)
    /\ Len(points_columns) = 1
    /\ Len(methods) = 1

\* C20: when no columns are requested, the table has no numeric column and
\* no names are provided, N is 0 and the run raises no error: it issues no
\* call, leaves the table of the areas map as it was, and ends in Succeeded
\* with exit status 0.
C20_NothingToDo ==
    (/\ options["points_columns"] = ""
     /\ options["stats_columns"] = ""
     /\ \A k \in DOMAIN points_table : ~sql_type_is_numeric(points_table[k].type)) =>
        /\ error = NoError
        /\ calls = <<>>
        /\ areas_columns = InitialAreasColumns
        /\ pc = "Succeeded" \/ CanStep
        /\ pc \in {"TrimOptions", "Dispatching", "Succeeded"} => num_new_columns = 0
        /\ exit_status = IF pc = "Succeeded" THEN 0 ELSE -1

C20_Witness ==
    /\ pc = "Succeeded"
    /\ exit_status = 0
    /\ options["points_columns"] = ""
    /\ options["stats_columns"] = ""
    /\ Len(points_table) = 2
    /\ points_columns = <<>>
    /\ calls = <<>>
    /\ progress = <<<<1, 1, 1>>>>

=============================================================================
